---- MODULE Spec2Model ----
(***************************************************************************)
(* State-machine model of src/transaction-generator.js: the class          *)
(* PolkadotTransactionGenerator (initialize, sendTransaction,              *)
(* isValidAddress, dotToPlanck, disconnect), the command-line flow         *)
(* executeTransaction with validateInputs, and the block inclusion monitor *)
(* (monitorTransaction) that the README calls.                             *)
(*                                                                         *)
(* The chain SDK (@polkadot/api) is the environment: its answers           *)
(* (connection, fee query, submission, status events, finalized blocks)    *)
(* are inputs chosen with \E.                                              *)
(***************************************************************************)
EXTENDS Integers, Sequences, FiniteSets, TLC

VARIABLES
    pc,             \* position of the caller: start, validate, initialize, checkAddress,
                    \* send, paymentInfo, signAndSend, awaiting, finally, done
    entry,          \* "none", "cli" (executeTransaction) or "api" (a caller of the class)
    privateKey,     \* the secret handed to validateInputs / sendTransaction
    receiverAddress,\* the recipient handed to validateInputs / sendTransaction
    amount,         \* the amount: DOT as parsed by the CLI, planck once converted
    api,            \* this.api is set (non-null)
    keyring,        \* this.keyring is set (non-null)
    connOpen,       \* the network connection of this.api is open
    result,         \* the promise sendTransaction returns: [state, value]
    settleCount,    \* how many times that promise changed from pending to settled
    sub,            \* status subscription of signAndSend: none, active, rejected, closed
    handled,        \* number of status events the signAndSend callback has handled
    firstInBlock,   \* the first InBlock status event the callback handled (or NoEvent)
    log,            \* last line the callback printed: <<kind, hash>>
    calls,          \* number of invocations of each collaborator operation
    reported,       \* validation errors executeTransaction printed
    error,          \* message executeTransaction printed on the error channel
    monSub,         \* monitor: finalized-head subscription: none, active, closed,
                    \* unavailable, interrupted
    monTarget,      \* monitor: the transaction hash searched for
    monResult,      \* monitor: the InclusionRecord resolved (or NoRecord)
    monResolved,    \* monitor: number of resolutions
    monCallbacks,   \* monitor: number of finalized blocks its callback handled
    monStart,       \* monitor: number of the last finalized block when it subscribed
    monMatch,       \* monitor: the first block delivered to it that holds the target
    chainHeight     \* chain: number of the last finalized block

genVars == <<pc, entry, privateKey, receiverAddress, amount, api, keyring, connOpen,
             result, settleCount, sub, handled, firstInBlock, log, calls, reported, error>>
monVars == <<monSub, monTarget, monResult, monResolved, monCallbacks, monStart, monMatch,
             chainHeight>>
vars == <<genVars, monVars>>

----------------------------------------------------------------------------
(* Bounds of the model *)

\* longest event list that accompanies one status event (the records of one extrinsic)
MaxEvents == 2
\* number of status events delivered to one signAndSend callback
MaxStatus == 3
\* number of finalized blocks the chain produces while the monitor is observed
MaxBlocks == 5

----------------------------------------------------------------------------
(* Inputs *)

\* validateInputs: privateKey.length !== 66
KeyLength == 66
\* validateInputs: receiverAddress.length < 40
MinAddressLength == 40
\* sr25519 seed size accepted by keyring.addFromSeed
SeedBytes == 32

GoodKey == "0x1111111111111111111111111111111111111111111111111111111111111111"
NonHexKey == "0xzzzzzzzzzzzzzzzzzzzzzzzzzzzzzzzzzzzzzzzzzzzzzzzzzzzzzzzzzzzzzzzz"
NoPrefixKey == "111111111111111111111111111111111111111111111111111111111111111111"
ShortKey == "0x1111"
RawSeedKey == "abcdefghijklmnopqrstuvwxyzabcdef"

PrivateKeys == {GoodKey, NonHexKey, NoPrefixKey, ShortKey, RawSeedKey}

GoodAddress == "5GrwvaEF5zXb26Fz9rcQpDWS57CtERHpNehXCPcNoHGKutQY"
BadChecksumAddress == "5GrwvaEF5zXb26Fz9rcQpDWS57CtERHpNehXCPcNoHGKutQX"
ShortAddress == "5Grwva"

Addresses == {GoodAddress, BadChecksumAddress, ShortAddress, ""}

\* a number as JavaScript holds it here: NaN, or mant * 10^exp
Number(m, e) == [nan |-> FALSE, mant |-> m, exp |-> e]
NaN == [nan |-> TRUE, mant |-> 0, exp |-> 0]

\* what parseFloat gives for the amount typed at the prompt (in DOT), and what a
\* caller of sendTransaction passes (in planck)
Amounts == {NaN} \cup {Number(m, 0) : m \in {-1, 0, 1}}

----------------------------------------------------------------------------
(* Chain events *)

BlockHashes == {"0xb1", "0xb2"}

ExtrinsicSuccess == [section |-> "system", method |-> "ExtrinsicSuccess", data |-> "{weight}"]
ExtrinsicFailedWith(d) == [section |-> "system", method |-> "ExtrinsicFailed", data |-> d]
BalancesTransfer == [section |-> "balances", method |-> "Transfer", data |-> "{from,to,amount}"]

FailurePayloads == {"BadOrigin", "InsufficientBalance"}

ChainEvents == {ExtrinsicSuccess, BalancesTransfer}
                   \cup {ExtrinsicFailedWith(d) : d \in FailurePayloads}

IsSuccessEvent(e) == e.section = "system" /\ e.method = "ExtrinsicSuccess"
IsFailedEvent(e) == e.section = "system" /\ e.method = "ExtrinsicFailed"

SeqsUpTo(S, n) == UNION {[1..k -> S] : k \in 0..n}

\* The event records of one extrinsic in one block: the runtime deposits at most
\* one dispatch outcome (ExtrinsicSuccess or ExtrinsicFailed) kinds per extrinsic,
\* so no list holds both a success and a failure marker.
EventLists ==
    {l \in SeqsUpTo(ChainEvents, MaxEvents) :
        ~ ((\E i \in DOMAIN l : IsSuccessEvent(l[i])) /\ (\E i \in DOMAIN l : IsFailedEvent(l[i])))}

StatusEvent(s, h, l) == [status |-> s, hash |-> h, events |-> l]
NoEvent == StatusEvent("none", "", <<>>)

StatusEvents ==
    {StatusEvent("Ready", "", <<>>)}
        \cup {StatusEvent("Finalized", h, <<>>) : h \in BlockHashes}
        \cup {StatusEvent("InBlock", h, l) : h \in BlockHashes, l \in EventLists}

----------------------------------------------------------------------------
(* Pure functions of the source *)

StartsWith0x(s) == Len(s) >= 2 /\ SubSeq(s, 1, 2) = "0x"

HexDigits == {"0", "1", "2", "3", "4", "5", "6", "7", "8", "9",
              "a", "b", "c", "d", "e", "f", "A", "B", "C", "D", "E", "F"}

\* the SDK's reading of a string as hex: 0x, hex digits only, whole bytes
IsHex(s) ==
    /\ StartsWith0x(s)
    /\ Len(s) % 2 = 0
    /\ \A i \in 3..Len(s) : SubSeq(s, i, i) \in HexDigits

\* bytes keyring.addFromSeed gets from the string: hex is decoded, any other string
\* is taken character by character
SeedLength(key) == IF IsHex(key) THEN (Len(key) - 2) \div 2 ELSE Len(key)

\* keyring.addFromSeed(privateKey) returns a pair (does not throw)
SeedDerivable(key) == SeedLength(key) = SeedBytes

\* sender.address of the derived pair
SenderAddress(key) == "address-of(" \o key \o ")"

\* keyring.decodeAddress(address) returns (does not throw)
Decodes(address) == address = GoodAddress

\* isValidAddress: decodeAddress inside try/catch; with this.keyring null the
\* TypeError is caught as well and the answer is false
IsValidAddress(kr, address) == kr /\ Decodes(address)

\* validateInputs: the list of error lines
KeyError == "Private key must be in hex format (0x...) and 64 characters long"
AmountError == "Amount must be a positive number"
AddressError == "Invalid receiver address format"

ValidateInputs(key, address, amt) ==
    (IF ~StartsWith0x(key) \/ Len(key) # KeyLength THEN <<KeyError>> ELSE <<>>)
        \o (IF amt.nan \/ amt.mant <= 0 THEN <<AmountError>> ELSE <<>>)
        \o (IF address = "" \/ Len(address) < MinAddressLength THEN <<AddressError>> ELSE <<>>)

\* dotToPlanck: (dotAmount * 1e12).toString()
PlanckExponent == 12
DotToPlanck(amt) == IF amt.nan THEN NaN ELSE Number(amt.mant, amt.exp + PlanckExponent)

\* api.tx.balances.transferKeepAlive(to, amount) builds the call: the amount has to
\* encode as an unsigned balance, otherwise the constructor throws
Encodable(amt) == ~amt.nan /\ amt.mant >= 0

\* transfer.hash of the built call
TxHashOf(address, amt) == "hash-of-transfer(" \o address \o ")"

----------------------------------------------------------------------------
(* The promise sendTransaction returns *)

Value(ok, bh, th, from, to, msg) ==
    [success |-> ok, blockHash |-> bh, txHash |-> th, from |-> from, to |-> to, message |-> msg]
NoValue == Value(FALSE, "", "", "", "", "")
ErrorValue(msg) == Value(FALSE, "", "", "", "", msg)

NoPromise == [state |-> "none", value |-> NoValue]
Pending == [state |-> "pending", value |-> NoValue]

\* a settable outcome that is not a promise: every resolve or reject overwrites it
SettleOverwrites(p, st, v) == IF p.state = "none" THEN p ELSE [state |-> st, value |-> v]

\* resolve(v) / reject(e) of a promise: only a pending promise changes
Settle(p, st, v) == IF p.state = "pending" THEN [state |-> st, value |-> v] ELSE p

Count(p, q) == IF p = q THEN 0 ELSE 1

\* line 90: the catch block of sendTransaction wraps what was thrown inside try
Wrapped(msg) == "Failed to send transaction: " \o msg

SubmitError == "submission rejected by the node"
FeeError == "fee query failed"
SeedError == "Expected a valid seed"
NullKeyringError == "Cannot read properties of null"
EncodeError == "amount does not encode as Balance"
InvalidRecipient == "Invalid recipient address"
ConnectError == "unable to connect"
ChainNameError == "rpc system.chain failed"

\* events.some(ExtrinsicSuccess.is)
HasSuccess(l) == \E i \in DOMAIN l : IsSuccessEvent(l[i])

HasFailed(l) == \E i \in DOMAIN l : IsFailedEvent(l[i])

\* the data of events[0], whatever event that is
ErrorDataOfFirstEvent(l) == IF l # <<>> THEN l[1].data ELSE "undefined"

\* events.find(ExtrinsicFailed.is)?.event?.data inside the template string
ErrorData(l) ==
    IF HasFailed(l)
    THEN l[CHOOSE i \in DOMAIN l :
               IsFailedEvent(l[i]) /\ \A j \in DOMAIN l : IsFailedEvent(l[j]) => i <= j].data
    ELSE "undefined"

FailedMessage(l) == "Transaction failed: " \o ErrorData(l)

SuccessValue(ev) ==
    Value(TRUE, ev.hash, TxHashOf(receiverAddress, amount), SenderAddress(privateKey),
          receiverAddress, "")

\* a callback that rejects only when it finds an ExtrinsicFailed event
OnStatusNeedsFailure(p, ev) ==
    IF ev.status = "InBlock"
    THEN IF HasSuccess(ev.events)
         THEN Settle(p, "fulfilled", SuccessValue(ev))
         ELSE IF HasFailed(ev.events)
              THEN Settle(p, "rejected", ErrorValue(FailedMessage(ev.events)))
              ELSE p
    ELSE p

\* the callback given to signAndSend, as the new state of the returned promise
OnStatus(p, ev) ==
    IF ev.status = "InBlock"
    THEN IF HasSuccess(ev.events)
         THEN Settle(p, "fulfilled", SuccessValue(ev))
         ELSE Settle(p, "rejected", ErrorValue(FailedMessage(ev.events)))
    ELSE p

\* what the callback prints
LogLine(ev) ==
    IF ev.status = "InBlock" THEN <<"included", ev.hash>>
    ELSE IF ev.status = "Finalized" THEN <<"finalized", ev.hash>>
    ELSE log

NoCalls == [initialize |-> 0, build |-> 0, fee |-> 0, submit |-> 0, disconnect |-> 0]
Called(op) == [calls EXCEPT ![op] = @ + 1]

NoRecord == [blockNumber |-> 0, blockHash |-> "", txHash |-> ""]

----------------------------------------------------------------------------
(* Initial state: a constructed generator (api and keyring null), nothing called *)

GenInit ==
    /\ pc = "start"
    /\ entry = "none"
    /\ privateKey = ""
    /\ receiverAddress = ""
    /\ amount = NaN
    /\ api = FALSE
    /\ keyring = FALSE
    /\ connOpen = FALSE
    /\ result = NoPromise
    /\ settleCount = 0
    /\ sub = "none"
    /\ handled = 0
    /\ firstInBlock = NoEvent
    /\ log = <<"", "">>
    /\ calls = NoCalls
    /\ reported = <<>>
    /\ error = ""

MonIdle ==
    /\ monSub = "none"
    /\ monTarget = ""
    /\ monResult = NoRecord
    /\ monResolved = 0
    /\ monCallbacks = 0
    /\ monStart = 0
    /\ monMatch = NoRecord
    /\ chainHeight = 0

Init == GenInit /\ MonIdle

----------------------------------------------------------------------------
(* executeTransaction and the calls of the class *)

\* executeTransaction, getUserInputs: the answers typed at the prompt
GetUserInputs ==
    /\ pc = "start"
    /\ \E k \in PrivateKeys, a \in Addresses, m \in Amounts :
        /\ privateKey' = k
        /\ receiverAddress' = a
        /\ amount' = m
    /\ entry' = "cli"
    /\ pc' = "validate"
    /\ UNCHANGED <<api, keyring, connOpen, result, settleCount, sub, handled,
                   firstInBlock, log, calls, reported, error>>
    /\ UNCHANGED monVars

\* a program that uses the class directly, as the README does: initialize, the
\* call, disconnect
LibraryCall ==
    /\ pc = "start"
    /\ \E k \in PrivateKeys, a \in Addresses, m \in Amounts :
        /\ privateKey' = k
        /\ receiverAddress' = a
        /\ amount' = m
    /\ entry' = "api"
    /\ pc' = "initialize"
    /\ UNCHANGED <<api, keyring, connOpen, result, settleCount, sub, handled,
                   firstInBlock, log, calls, reported, error>>
    /\ UNCHANGED monVars

\* an executeTransaction whose disconnect is not in a finally block
ThrowSkipsFinally(msg) ==
    /\ error' = msg
    /\ pc' = "done"

\* catch and finally of executeTransaction; an error thrown in a README-style
\* caller leaves it
Throw(msg) ==
    /\ error' = msg
    /\ pc' = IF entry = "cli" THEN "finally" ELSE "done"

\* validation errors are printed and the flow carries on
AfterValidateNoReturn(errors) == "initialize"

\* lines 216-220: with validation errors, return (to the finally block)
AfterValidate(errors) == IF errors # <<>> THEN "finally" ELSE "initialize"

\* executeTransaction: validateInputs and the early return (finally still runs)
Validate ==
    /\ pc = "validate"
    /\ reported' = ValidateInputs(privateKey, receiverAddress, amount)
    /\ pc' = AfterValidate(reported')
    /\ UNCHANGED <<entry, privateKey, receiverAddress, amount, api, keyring, connOpen,
                   result, settleCount, sub, handled, firstInBlock, log, calls, error>>
    /\ UNCHANGED monVars

\* initialize: the connection is not established (lines 13-17 throw), it is and
\* the chain-name query of line 22 fails, or all of it succeeds
Initialize ==
    /\ pc = "initialize"
    /\ calls' = Called("initialize")
    /\ \E outcome \in {"connectFails", "chainNameFails", "ok"} :
        /\ api' = (outcome # "connectFails")
        /\ keyring' = (outcome # "connectFails")
        /\ connOpen' = (outcome # "connectFails")
        /\ IF outcome = "ok"
           THEN /\ pc' = IF entry = "cli" THEN "checkAddress" ELSE "send"
                /\ error' = error
           ELSE Throw(IF outcome = "connectFails" THEN ConnectError ELSE ChainNameError)
    /\ UNCHANGED <<entry, privateKey, receiverAddress, amount, result, settleCount, sub,
                   handled, firstInBlock, log, reported>>
    /\ UNCHANGED monVars

\* executeTransaction lines 226-232: the keyring check of the address, dotToPlanck
CheckAddress ==
    /\ pc = "checkAddress"
    /\ IF ~IsValidAddress(keyring, receiverAddress)
       THEN /\ Throw(AddressError)
            /\ amount' = amount
       ELSE /\ amount' = DotToPlanck(amount)
            /\ pc' = "send"
            /\ error' = error
    /\ UNCHANGED <<entry, privateKey, receiverAddress, api, keyring, connOpen, result,
                   settleCount, sub, handled, firstInBlock, log, calls, reported>>
    /\ UNCHANGED monVars

\* an error thrown inside the try of sendTransaction: the promise it returns is
\* rejected with the wrapped message
SendThrows(msg) ==
    /\ result' = [state |-> "rejected", value |-> ErrorValue(Wrapped(msg))]
    /\ settleCount' = settleCount + 1
    /\ pc' = "awaiting"

\* a sendTransaction that builds the call before it validates the recipient
SendOutcomeBuildsFirst(kr, key, address, amt) ==
    IF ~kr THEN [built |-> FALSE, fee |-> FALSE, thrown |-> NullKeyringError]
    ELSE IF ~SeedDerivable(key) THEN [built |-> FALSE, fee |-> FALSE, thrown |-> SeedError]
    ELSE IF ~Encodable(amt) THEN [built |-> TRUE, fee |-> FALSE, thrown |-> EncodeError]
    ELSE IF ~IsValidAddress(kr, address)
         THEN [built |-> TRUE, fee |-> FALSE, thrown |-> InvalidRecipient]
    ELSE [built |-> TRUE, fee |-> TRUE, thrown |-> ""]

\* which operations of the SDK the synchronous part of sendTransaction reaches
\* (lines 35-46), and the error it throws, if any
SendOutcome(kr, key, address, amt) ==
    IF ~kr THEN [built |-> FALSE, fee |-> FALSE, thrown |-> NullKeyringError]
    ELSE IF ~SeedDerivable(key) THEN [built |-> FALSE, fee |-> FALSE, thrown |-> SeedError]
    ELSE IF ~IsValidAddress(kr, address)
         THEN [built |-> FALSE, fee |-> FALSE, thrown |-> InvalidRecipient]
    ELSE IF ~Encodable(amt) THEN [built |-> TRUE, fee |-> FALSE, thrown |-> EncodeError]
    ELSE [built |-> TRUE, fee |-> TRUE, thrown |-> ""]

\* sendTransaction up to its first await: addFromSeed, isValidAddress,
\* transferKeepAlive, the call of paymentInfo
SendTransaction ==
    /\ pc = "send"
    /\ LET o == SendOutcome(keyring, privateKey, receiverAddress, amount) IN
        /\ calls' = [calls EXCEPT !.build = @ + (IF o.built THEN 1 ELSE 0),
                                  !.fee = @ + (IF o.fee THEN 1 ELSE 0)]
        /\ IF o.thrown # ""
           THEN SendThrows(o.thrown)
           ELSE /\ pc' = "paymentInfo"
                /\ UNCHANGED <<result, settleCount>>
    /\ UNCHANGED <<entry, privateKey, receiverAddress, amount, api, keyring, connOpen,
                   sub, handled, firstInBlock, log, reported, error>>
    /\ UNCHANGED monVars

\* the fee query answers: on failure the catch block wraps it; otherwise the
\* promise is created and signAndSend is called (lines 56-57)
PaymentInfoReturns ==
    /\ pc = "paymentInfo"
    /\ \E ok \in BOOLEAN :
        IF ok
        THEN /\ result' = Pending
             /\ calls' = Called("submit")
             /\ pc' = "signAndSend"
             /\ settleCount' = settleCount
        ELSE /\ SendThrows(FeeError)
             /\ calls' = calls
    /\ UNCHANGED <<entry, privateKey, receiverAddress, amount, api, keyring, connOpen,
                   sub, handled, firstInBlock, log, reported, error>>
    /\ UNCHANGED monVars

\* signAndSend(...) without the .catch(reject)
OnSubmitRejectedIgnored(p) == p

\* line 86: signAndSend(...).catch(reject)
OnSubmitRejected(p) == Settle(p, "rejected", ErrorValue(SubmitError))

\* the promise of signAndSend settles: the subscription is established, or the
\* submission is rejected before any status event
SignAndSendSettles ==
    /\ pc = "signAndSend"
    /\ \E ok \in BOOLEAN :
        IF ok
        THEN /\ sub' = "active"
             /\ UNCHANGED <<result, settleCount>>
        ELSE /\ sub' = "rejected"
             /\ result' = OnSubmitRejected(result)
             /\ settleCount' = settleCount + Count(result, result')
    /\ pc' = "awaiting"
    /\ UNCHANGED <<entry, privateKey, receiverAddress, amount, api, keyring, connOpen,
                   handled, firstInBlock, log, calls, reported, error>>
    /\ UNCHANGED monVars

\* the node delivers a status event and the callback of lines 57-85 handles it
StatusCallback ==
    /\ sub = "active"
    /\ handled < MaxStatus
    /\ \E ev \in StatusEvents :
        /\ result' = OnStatus(result, ev)
        /\ settleCount' = settleCount + Count(result, result')
        /\ log' = LogLine(ev)
        /\ firstInBlock' = IF ev.status = "InBlock" /\ firstInBlock = NoEvent
                           THEN ev ELSE firstInBlock
    /\ handled' = handled + 1
    /\ UNCHANGED <<pc, entry, privateKey, receiverAddress, amount, api, keyring, connOpen,
                   sub, calls, reported, error>>
    /\ UNCHANGED monVars

\* the caller's await of sendTransaction returns or throws
AwaitResult ==
    /\ pc = "awaiting"
    /\ result.state \in {"fulfilled", "rejected"}
    /\ IF result.state = "rejected"
       THEN Throw(result.value.message)
       ELSE /\ pc' = "finally"
            /\ error' = error
    /\ UNCHANGED <<entry, privateKey, receiverAddress, amount, api, keyring, connOpen,
                   result, settleCount, sub, handled, firstInBlock, log, calls, reported>>
    /\ UNCHANGED monVars

\* disconnect: if (this.api) await this.api.disconnect(); closing the connection
\* ends its subscriptions
Disconnect ==
    /\ pc = "finally"
    /\ calls' = Called("disconnect")
    /\ connOpen' = IF api THEN FALSE ELSE connOpen
    /\ sub' = IF api /\ sub = "active" THEN "closed" ELSE sub
    /\ pc' = "done"
    /\ UNCHANGED <<entry, privateKey, receiverAddress, amount, api, keyring, result,
                   settleCount, handled, firstInBlock, log, reported, error>>
    /\ UNCHANGED monVars

Next ==
    \/ GetUserInputs
    \/ LibraryCall
    \/ Validate
    \/ Initialize
    \/ CheckAddress
    \/ SendTransaction
    \/ PaymentInfoReturns
    \/ SignAndSendSettles
    \/ StatusCallback
    \/ AwaitResult
    \/ Disconnect

Spec == Init /\ [][Next]_vars

----------------------------------------------------------------------------
(* The block inclusion monitor (monitorTransaction) *)

TxHashes == {"0xtx1", "0xtx2"}

BlockHashAt(n) == "0xfinalized" \o ToString(n)

InclusionRecord(n, tx) == [blockNumber |-> n, blockHash |-> BlockHashAt(n), txHash |-> tx]

\* a monitor that never unsubscribes
AfterBlockStaysSubscribed(matched) == "active"

\* the subscription after the callback has handled a block: released on a match
AfterBlock(matched) == IF matched THEN "closed" ELSE "active"

\* monitorTransaction(txHash): subscribe to the finalized heads; the feed may
\* fail to establish (MonitorUnavailable)
MonitorTransaction ==
    /\ monSub = "none"
    /\ \E tx \in TxHashes : monTarget' = tx
    /\ \E ok \in BOOLEAN : monSub' = IF ok THEN "active" ELSE "unavailable"
    /\ monStart' = chainHeight
    /\ UNCHANGED <<monResult, monResolved, monCallbacks, monMatch, chainHeight>>
    /\ UNCHANGED genVars

\* the chain finalizes its next block; a subscribed monitor fetches the block's
\* extrinsics and searches them for the target
FinalizeBlock ==
    /\ chainHeight < MaxBlocks
    /\ chainHeight' = chainHeight + 1
    /\ \E extrinsics \in SUBSET TxHashes :
        LET matched == monTarget \in extrinsics IN
        /\ monMatch' = IF monSub \in {"active", "closed"} /\ matched /\ monMatch = NoRecord
                       THEN InclusionRecord(chainHeight', monTarget) ELSE monMatch
        /\ IF monSub = "active"
           THEN /\ monCallbacks' = monCallbacks + 1
                /\ monSub' = AfterBlock(matched)
                /\ monResolved' = monResolved + (IF matched THEN 1 ELSE 0)
                /\ monResult' = IF matched /\ monResult = NoRecord
                                THEN InclusionRecord(chainHeight', monTarget) ELSE monResult
           ELSE UNCHANGED <<monCallbacks, monSub, monResolved, monResult>>
    /\ UNCHANGED <<monTarget, monStart>>
    /\ UNCHANGED genVars

\* the feed ends (connection closed) before a match: MonitorInterrupted
FeedCloses ==
    /\ monSub = "active"
    /\ monSub' = "interrupted"
    /\ UNCHANGED <<monTarget, monResult, monResolved, monCallbacks, monStart, monMatch,
                   chainHeight>>
    /\ UNCHANGED genVars

MonNext ==
    \/ MonitorTransaction
    \/ FinalizeBlock
    \/ FeedCloses

MonSpec == Init /\ [][MonNext]_vars

----------------------------------------------------------------------------
(* Properties *)

IsTerminal(p) == p.state \in {"fulfilled", "rejected"}

\* sendTransaction has run its synchronous part
SendEntered == pc = "paymentInfo" \/ result.state # "none"

AmountInvalid(amt) == amt.nan \/ amt.mant <= 0

NoChainCall == calls.fee = 0 /\ calls.submit = 0

\* C1: when the first InBlock event the callback handles carries an
\* ExtrinsicSuccess marker, the promise of sendTransaction is fulfilled with
\* success = true, the block hash of that event and the hash of the transfer,
\* it has settled exactly once, and no later event (Finalized included) changes
\* that.
C1_SuccessSettlesOnce ==
    (firstInBlock.status = "InBlock" /\ HasSuccess(firstInBlock.events)) =>
        /\ result.state = "fulfilled"
        /\ result.value.success
        /\ result.value.blockHash = firstInBlock.hash
        /\ result.value.txHash = TxHashOf(receiverAddress, amount)
        /\ result.value.message = ""
        /\ settleCount = 1

\* InBlock with a success marker, then Finalized
C1_Witness ==
    /\ firstInBlock.status = "InBlock"
    /\ HasSuccess(firstInBlock.events)
    /\ handled = 2
    /\ log[1] = "finalized"
    /\ result.state = "fulfilled"

\* C2: when the first InBlock event the callback handles carries an
\* ExtrinsicFailed marker, the promise is rejected with a reason made of the
\* payload of that (first) failure event, it has settled exactly once, and no
\* later event (a Finalized, an InBlock with a success marker) changes that.
C2_FailureIsFinal ==
    (firstInBlock.status = "InBlock" /\ HasFailed(firstInBlock.events)) =>
        /\ result.state = "rejected"
        /\ \E i \in DOMAIN firstInBlock.events :
            /\ IsFailedEvent(firstInBlock.events[i])
            /\ \A j \in 1..(i - 1) : ~IsFailedEvent(firstInBlock.events[j])
            /\ result.value.message = "Transaction failed: " \o firstInBlock.events[i].data
        /\ ~result.value.success
        /\ settleCount = 1

\* InBlock with a failure marker behind another event, then a later event that
\* printed another block
C2_Witness ==
    /\ firstInBlock.status = "InBlock"
    /\ Len(firstInBlock.events) = 2
    /\ ~IsFailedEvent(firstInBlock.events[1])
    /\ IsFailedEvent(firstInBlock.events[2])
    /\ handled >= 2
    /\ log[2] # firstInBlock.hash
    /\ result.state = "rejected"

\* C3 (as claimed): once the outcome of a submission is terminal, its status
\* subscription is no longer active.
C3_ReleasedOnTerminal ==
    (firstInBlock.status = "InBlock" /\ IsTerminal(result)) => sub # "active"

\* C4 (as claimed): for a recipient that fails isValidAddress, sendTransaction
\* fails with the invalid-address error and transferKeepAlive, paymentInfo and
\* signAndSend are not invoked.
C4_InvalidAddressError ==
    (SendEntered /\ ~IsValidAddress(keyring, receiverAddress)) =>
        /\ result.state = "rejected"
        /\ result.value.message = Wrapped(InvalidRecipient)
        /\ calls.build = 0
        /\ NoChainCall

\* C4 (amended): for a recipient that fails isValidAddress, sendTransaction
\* fails and transferKeepAlive, paymentInfo and signAndSend are not invoked; the
\* error is the invalid-address error whenever the sender pair could be derived
\* from the private key (addFromSeed runs first and its error wins otherwise).
C4_InvalidAddressFails ==
    (SendEntered /\ ~IsValidAddress(keyring, receiverAddress)) =>
        /\ result.state = "rejected"
        /\ calls.build = 0
        /\ NoChainCall
        /\ SeedDerivable(privateKey) => result.value.message = Wrapped(InvalidRecipient)

\* a derivable key and an address that does not decode
C4_Witness ==
    /\ SendEntered
    /\ SeedDerivable(privateKey)
    /\ ~Decodes(receiverAddress)
    /\ result.value.message = Wrapped(InvalidRecipient)

\* C5 (as claimed): for an amount <= 0 or non-numeric, sendTransaction fails
\* before paymentInfo or signAndSend is called.
C5_InvalidAmountBeforeNetwork ==
    (SendEntered /\ AmountInvalid(amount)) =>
        /\ result.state = "rejected"
        /\ NoChainCall

\* C6 (as claimed): in executeTransaction, whenever one of its input validations
\* fails (validateInputs on the secret, the amount and the recipient, or the
\* check of the recipient's address format), initialize is never called and no
\* fee estimation or submission occurs.
C6_AllValidationBeforeNetwork ==
    (/\ entry = "cli"
     /\ \/ ValidateInputs(privateKey, receiverAddress, amount) # <<>>
        \/ ~Decodes(receiverAddress)) =>
        /\ calls.initialize = 0
        /\ NoChainCall

\* C6 (amended): in executeTransaction, every error validateInputs detects
\* (secret not 0x-prefixed or not 66 characters, amount NaN or <= 0, recipient
\* empty or shorter than 40 characters) is reported before any network
\* operation: initialize is never called and no fee estimation or submission
\* occurs. A recipient that passes these checks but does not decode, or a secret
\* that passes them but gives no seed, is only found after initialize, and still
\* no fee estimation or submission occurs.
C6_ValidateInputsBeforeNetwork ==
    entry = "cli" =>
        /\ ValidateInputs(privateKey, receiverAddress, amount) # <<>> =>
               /\ calls.initialize = 0
               /\ ~connOpen
               /\ NoChainCall
               /\ pc # "validate" =>
                      reported = ValidateInputs(privateKey, receiverAddress, amount)
        /\ (~Decodes(receiverAddress) \/ ~SeedDerivable(privateKey)) => NoChainCall

\* executeTransaction has ended after printing validation errors
C6_Witness ==
    /\ entry = "cli"
    /\ pc = "done"
    /\ reported # <<>>
    /\ calls.initialize = 0

\* C7: if signAndSend itself fails, the promise of sendTransaction is rejected
\* with the submission error at once, the status callback never runs for that
\* submission and the outcome is never a success or an on-chain failure.
C7_SubmissionRejected ==
    sub = "rejected" =>
        /\ result = [state |-> "rejected", value |-> ErrorValue(SubmitError)]
        /\ settleCount = 1
        /\ handled = 0
        /\ firstInBlock = NoEvent
        /\ log = <<"", "">>

\* the submission was rejected and the caller has finished
C7_Witness ==
    /\ sub = "rejected"
    /\ pc = "done"
    /\ calls.submit = 1

\* C8: on every path through executeTransaction, disconnect is called exactly
\* once before the function completes (never twice, never before the finally
\* block), and a connection opened by initialize is closed when it completes.
C8_TeardownOnce ==
    entry = "cli" =>
        /\ calls.disconnect = (IF pc = "done" THEN 1 ELSE 0)
        /\ pc = "done" => ~connOpen /\ sub # "active"

\* initialize connected and then threw; executeTransaction has completed
C8_Witness ==
    /\ entry = "cli"
    /\ pc = "done"
    /\ api
    /\ error = ChainNameError
    /\ calls.disconnect = 1

\* C9: once a finalized block delivered to the subscribed monitor holds the
\* target hash, the monitor has resolved exactly once, with the InclusionRecord
\* of the first such block, and has unsubscribed; its callback ran for the
\* blocks up to that one and for none after it.
C9_MonitorResolvesOnce ==
    /\ monResolved <= 1
    /\ monMatch # NoRecord =>
        /\ monResult = monMatch
        /\ monResolved = 1
        /\ monSub = "closed"
        /\ monCallbacks = monMatch.blockNumber - monStart
    /\ monMatch = NoRecord => monResult = NoRecord /\ monResolved = 0

\* five consecutive blocks seen from the start, the target in block 3
C9_Witness ==
    /\ monStart = 0
    /\ chainHeight = MaxBlocks
    /\ monMatch = InclusionRecord(3, monTarget)
    /\ monResult = monMatch
    /\ monCallbacks = 3

\* C10: the first InBlock event settles the promise: fulfilled if and only if its
\* event list holds ExtrinsicSuccess, rejected otherwise, with the reason
\* "undefined" when the list holds neither marker; while only events other than
\* InBlock have been handled the promise stays pending.
C10_FirstInBlockDecides ==
    /\ firstInBlock.status = "InBlock" =>
        /\ result.state = (IF HasSuccess(firstInBlock.events) THEN "fulfilled" ELSE "rejected")
        /\ (~HasSuccess(firstInBlock.events) /\ ~HasFailed(firstInBlock.events)) =>
               result.value.message = "Transaction failed: undefined"
    /\ (sub \in {"active", "closed"} /\ firstInBlock = NoEvent) => result = Pending

\* an InBlock event with neither marker has rejected the promise
C10_Witness ==
    /\ firstInBlock.status = "InBlock"
    /\ firstInBlock.events # <<>>
    /\ ~HasSuccess(firstInBlock.events)
    /\ ~HasFailed(firstInBlock.events)
    /\ result.state = "rejected"

====
